---- MODULE Spec2Model ----
(***************************************************************************)
(* EasyApt backend (FastAPI + SQLModel): the request handlers of           *)
(* app/auth.py, app/appointments.py and app/profile.py and the script      *)
(* create_provider.py as a state machine over the relational store         *)
(* (tables user, provider, appointment, patientprofile) and the clock.     *)
(*                                                                         *)
(* Every handler is one action and runs to completion (one session, one    *)
(* commit).  The booking handler and the profile handler are also given   *)
(* in two steps (read, then write and commit) for the interleaving of two  *)
(* requests.                                                               *)
(*                                                                         *)
(* Optional[...] values are sequences of length at most one: <<>> is None, *)
(* <<v>> is the value v.                                                   *)
(***************************************************************************)
EXTENDS Integers, Sequences, FiniteSets, TLC

VARIABLES
    users,         \* table user: sequence of rows, id = position
    providers,     \* table provider: the set of ids of its rows
    appointments,  \* table appointment: sequence of rows, id = position
    now,           \* datetime.utcnow(), in seconds
    resp,          \* the response of the last request
    tokens,        \* the access tokens issued by login that clients still hold
    inflight,      \* booking requests between their overlap check and their commit
    checked_at,    \* history: for each appointment, the number of rows its request's overlap check saw
    streak,        \* history: per user id, the wrong passwords verified since the last successful login
    profiles,      \* table patientprofile: sequence of rows, id = position
    dispatch,      \* the notification the last request handed to the notification service
    status_before  \* history: the status the appointment the last request addressed had before it

vars == <<users, providers, appointments, now, resp, tokens, inflight,
          checked_at, streak, profiles, dispatch, status_before>>

-----------------------------------------------------------------------------
(* Bounds of the model *)

\* appointment rows the store may hold
MaxAppts == 2
\* wall-clock values 0..MaxTime of the datetimes a booking request carries
MaxTime == 1

-----------------------------------------------------------------------------
(* Optional values *)

None == <<>>
Some(v) == <<v>>
IsNone(o) == o = <<>>
Val(o) == o[1]

-----------------------------------------------------------------------------
(* datetime values of request bodies: wall clock t, tzinfo None or a UTC    *)
(* offset (in the unit of t)                                                *)

Times == 0..MaxTime
UtcOffsets == {1}
TzInfos == {None} \cup {Some(o) : o \in UtcOffsets}
DateTimes == [t : Times, tzinfo : TzInfos]

IsNaive(d) == IsNone(d.tzinfo)

\* d.astimezone(timezone.utc).replace(tzinfo=None)
AsUtcNaive(d) == d.t - Val(d.tzinfo)

\* reschedule's normalisation: aware datetimes become naive UTC, naive ones stay
Normalize(d) == IF IsNaive(d) THEN d.t ELSE AsUtcNaive(d)

\* Python orders two datetimes only when both are naive or both are aware;
\* otherwise the comparison raises TypeError
Comparable(a, b) == IsNaive(a) <=> IsNaive(b)

\* a > b in place of a >= b
DateTimeGt(a, b) ==
    IF IsNaive(a) THEN a.t > b.t ELSE AsUtcNaive(a) > AsUtcNaive(b)

\* a >= b on comparable datetimes: wall clocks if naive, instants if aware
DateTimeGe(a, b) ==
    IF IsNaive(a) THEN a.t >= b.t ELSE AsUtcNaive(a) >= AsUtcNaive(b)

\* the value a "timestamp without time zone" column takes for a bound datetime
\* (session time zone UTC): the value compared in the overlap query and stored
ColumnTime(d) == IF IsNaive(d) THEN d.t ELSE AsUtcNaive(d)

-----------------------------------------------------------------------------
(* Rows *)

UserIds == {1, 2}
Emails == {"ann@example.com", "bob@example.com"}
UnknownEmail == "eve@example.com"
ProviderIds == {1, 2}
UnknownProviderId == 3

\* the password the two registered patients chose; it meets the policy
GoodPassword == <<"S", "e", "c", "r", "e", "t", "-", "p", "a", "s", "s", "1">>

\* a password nobody registered
WrongPassword == <<"l", "e", "t", "m", "e", "i", "n">>

\* get_password_hash: a one-way hash, kept as the scheme and the hashed text
get_password_hash(password) == <<"argon2", password>>

\* verify_password: Argon2 first, pbkdf2_sha256 for the hashes of older rows
verify_password(plain_password, hashed_password) ==
    \/ hashed_password = <<"argon2", plain_password>>
    \/ hashed_password = <<"pbkdf2_sha256", plain_password>>

\* User(email=..., password_hash=..., role=...) with the defaults of the table
NewUser(id, email, password, role) ==
    [id |-> id, email |-> email, password_hash |-> get_password_hash(password),
     role |-> role, failed_login_attempts |-> 0, lockout_until |-> None,
     last_active |-> None]

\* Appointment(patient_id=..., provider_id=..., start_time=..., end_time=..., status="booked")
NewAppointment(id, patient_id, provider_id, start_time, end_time) ==
    [id |-> id, patient_id |-> patient_id, provider_id |-> provider_id,
     start_time |-> start_time, end_time |-> end_time, status |-> "booked"]

ApptIds == DOMAIN appointments

-----------------------------------------------------------------------------
(* Responses: HTTP status, detail, the id of the row returned (0: none), the  *)
(* minutes a lockout message reports, the token a login returns and the rows *)
(* a listing returns                                                         *)

Response(status, detail) ==
    [status |-> status, detail |-> detail, id |-> 0, minutes |-> 0,
     token |-> None, rows |-> <<>>]
Returned(detail, id) ==
    [status |-> 200, detail |-> detail, id |-> id, minutes |-> 0,
     token |-> None, rows |-> <<>>]

NoResponse == Response(0, "")
ProviderNotFound == Response(404, "Provider not found.")
InvalidRange == Response(400, "start_time must be before end_time.")
SlotConflict == Response(400, "This time slot is already booked for this provider.")
\* an exception no handler catches (TypeError of a naive/aware comparison)
InternalServerError == Response(500, "Internal Server Error")
AppointmentNotFound == Response(404, "Appointment not found.")
RescheduleForbidden == Response(403, "You can only reschedule your own appointments.")
RescheduleInvalidRange == Response(400, "start_time must be before end_time")
CancelForbidden == Response(403, "You can only cancel your own appointments.")
Cancelled == Response(200, "Appointment cancelled")

-----------------------------------------------------------------------------
(* Notifications: each of register, book, reschedule and cancel calls the     *)
(* notification service in a try block after its commit                       *)

\* the call returned True, returned False, or raised
DispatchResults == {"sent", "failed", "raised"}
\* a notification service that delivers
Delivered == {"sent"}

NoDispatch == [kind |-> "", to |-> "", id |-> 0, date |-> 0, result |-> ""]

\* the call in the try block: its kind, the address, the row it is about,
\* the appointment date it reports and how it ended; a request that raised
\* HTTPException never reaches it
Notify(kind, to, id, date, response, result) ==
    IF response.status = 200
    THEN [kind |-> kind, to |-> to, id |-> id, date |-> date, result |-> result]
    ELSE NoDispatch

\* appt.start_time of the refreshed row (0 where there is no such row)
StartOf(appts, id) == IF id \in DOMAIN appts THEN appts[id].start_time ELSE 0

\* an except clause that lets the exception of the service through
AfterDispatchPropagates(response, result) ==
    IF response.status = 200 /\ result = "raised"
    THEN InternalServerError
    ELSE response

\* except Exception as e: print(...): the handler returns what it committed
AfterDispatch(response, result) == response

-----------------------------------------------------------------------------
(* Scheduling: book_appointment *)

\* the overlap query comparing the stored start with both ends of the range
BookOverlapStartOnly(appts, provider_id, start, end) ==
    {i \in DOMAIN appts :
        /\ appts[i].provider_id = provider_id
        /\ appts[i].status = "booked"
        /\ appts[i].start_time < end
        /\ appts[i].start_time > start}

\* the overlap query of book_appointment: rows of the provider with status
\* "booked", start_time < end and end_time > start
BookOverlap(appts, provider_id, start, end) ==
    {i \in DOMAIN appts :
        /\ appts[i].provider_id = provider_id
        /\ appts[i].status = "booked"
        /\ appts[i].start_time < end
        /\ appts[i].end_time > start}

\* book_appointment without its overlap query
BookCheckNoOverlap(appts, provs, provider_id, start_time, end_time) ==
    IF provider_id \notin provs THEN Some(ProviderNotFound)
    ELSE IF ~Comparable(start_time, end_time) THEN Some(InternalServerError)
    ELSE IF DateTimeGe(start_time, end_time) THEN Some(InvalidRange)
    ELSE None

\* book_appointment up to the overlap check: the error it raises, or None
BookCheck(appts, provs, provider_id, start_time, end_time) ==
    IF provider_id \notin provs THEN Some(ProviderNotFound)
    ELSE IF ~Comparable(start_time, end_time) THEN Some(InternalServerError)
    ELSE IF DateTimeGe(start_time, end_time) THEN Some(InvalidRange)
    ELSE IF BookOverlap(appts, provider_id, ColumnTime(start_time),
                        ColumnTime(end_time)) # {}
         THEN Some(SlotConflict)
    ELSE None

\* session.add(appt); session.commit(); session.refresh(appt)
BookInsert(appts, patient_id, provider_id, start_time, end_time) ==
    Append(appts, NewAppointment(Len(appts) + 1, patient_id, provider_id,
                                 ColumnTime(start_time), ColumnTime(end_time)))

\* the whole handler on a store: its response and the table after it
BookOutcome(appts, provs, patient_id, provider_id, start_time, end_time) ==
    LET err == BookCheck(appts, provs, provider_id, start_time, end_time) IN
    IF ~IsNone(err)
    THEN [resp |-> Val(err), appointments |-> appts]
    ELSE [resp |-> Returned("booked", Len(appts) + 1),
          appointments |-> BookInsert(appts, patient_id, provider_id,
                                      start_time, end_time)]

\* sent: how the call of send_booking_confirmation ends
Book(current_user, provider_id, start_time, end_time, sent) ==
    \E out \in {BookOutcome(appointments, providers, current_user, provider_id,
                              start_time, end_time)} :
    /\ Len(out.appointments) <= MaxAppts
    /\ resp' = AfterDispatch(out.resp, sent)
    /\ appointments' = out.appointments
    /\ dispatch' = Notify("booking_confirmation", users[current_user].email,
                          out.resp.id, StartOf(out.appointments, out.resp.id),
                          out.resp, sent)
    /\ checked_at' = IF Len(out.appointments) > Len(appointments)
                     THEN Append(checked_at, Len(appointments))
                     ELSE checked_at
    /\ status_before' = ""
    /\ UNCHANGED <<users, providers, now, tokens, inflight, streak, profiles>>

-----------------------------------------------------------------------------
(* Scheduling: reschedule_appointment *)

\* the overlap query comparing the stored start with the new start only
RescheduleOverlapWrongBound(appts, appt, start, end) ==
    {i \in DOMAIN appts :
        /\ appts[i].provider_id = appt.provider_id
        /\ appts[i].status = "booked"
        /\ appts[i].id # appt.id
        /\ appts[i].start_time < start
        /\ appts[i].end_time > start}

\* the overlap query without the exclusion of the appointment's own row
RescheduleOverlapWithSelf(appts, appt, start, end) ==
    {i \in DOMAIN appts :
        /\ appts[i].provider_id = appt.provider_id
        /\ appts[i].status = "booked"
        /\ appts[i].start_time < end
        /\ appts[i].end_time > start}

\* the overlap query of reschedule_appointment: as for booking, without the
\* appointment's own row
RescheduleOverlap(appts, appt, start, end) ==
    {i \in DOMAIN appts :
        /\ appts[i].provider_id = appt.provider_id
        /\ appts[i].status = "booked"
        /\ appts[i].id # appt.id
        /\ appts[i].start_time < end
        /\ appts[i].end_time > start}

\* reschedule_appointment comparing the range before it checks the owner
RescheduleOutcomeRangeFirst(appts, current_user, appointment_id, start_time, end_time) ==
    IF appointment_id \notin DOMAIN appts
    THEN [resp |-> AppointmentNotFound, appointments |-> appts]
    ELSE
    LET appt == appts[appointment_id]
        start == Normalize(start_time)
        end == Normalize(end_time)
    IN
    IF start >= end
    THEN [resp |-> RescheduleInvalidRange, appointments |-> appts]
    ELSE IF appt.patient_id # current_user
    THEN [resp |-> RescheduleForbidden, appointments |-> appts]
    ELSE IF RescheduleOverlap(appts, appt, start, end) # {}
    THEN [resp |-> SlotConflict, appointments |-> appts]
    ELSE [resp |-> Returned("rescheduled", appt.id),
          appointments |->
              [appts EXCEPT ![appointment_id].start_time = start,
                            ![appointment_id].end_time = end]]

\* reschedule_appointment putting the row back to status "booked"
RescheduleOutcomeRebooks(appts, current_user, appointment_id, start_time, end_time) ==
    IF appointment_id \notin DOMAIN appts
    THEN [resp |-> AppointmentNotFound, appointments |-> appts]
    ELSE
    LET appt == appts[appointment_id]
        start == Normalize(start_time)
        end == Normalize(end_time)
    IN
    IF appt.patient_id # current_user
    THEN [resp |-> RescheduleForbidden, appointments |-> appts]
    ELSE IF start >= end
    THEN [resp |-> RescheduleInvalidRange, appointments |-> appts]
    ELSE IF RescheduleOverlap(appts, appt, start, end) # {}
    THEN [resp |-> SlotConflict, appointments |-> appts]
    ELSE [resp |-> Returned("rescheduled", appt.id),
          appointments |->
              [appts EXCEPT ![appointment_id].start_time = start,
                            ![appointment_id].end_time = end,
                            ![appointment_id].status = "booked"]]

\* reschedule_appointment refusing only start > end
RescheduleOutcomeAllowsEmpty(appts, current_user, appointment_id, start_time, end_time) ==
    IF appointment_id \notin DOMAIN appts
    THEN [resp |-> AppointmentNotFound, appointments |-> appts]
    ELSE
    LET appt == appts[appointment_id]
        start == Normalize(start_time)
        end == Normalize(end_time)
    IN
    IF appt.patient_id # current_user
    THEN [resp |-> RescheduleForbidden, appointments |-> appts]
    ELSE IF start > end
    THEN [resp |-> RescheduleInvalidRange, appointments |-> appts]
    ELSE IF RescheduleOverlap(appts, appt, start, end) # {}
    THEN [resp |-> SlotConflict, appointments |-> appts]
    ELSE [resp |-> Returned("rescheduled", appt.id),
          appointments |->
              [appts EXCEPT ![appointment_id].start_time = start,
                            ![appointment_id].end_time = end]]

\* the whole handler on a store: its response and the table after it
RescheduleOutcome(appts, current_user, appointment_id, start_time, end_time) ==
    IF appointment_id \notin DOMAIN appts
    THEN [resp |-> AppointmentNotFound, appointments |-> appts]
    ELSE
    LET appt == appts[appointment_id]
        start == Normalize(start_time)
        end == Normalize(end_time)
    IN
    IF appt.patient_id # current_user
    THEN [resp |-> RescheduleForbidden, appointments |-> appts]
    ELSE IF start >= end
    THEN [resp |-> RescheduleInvalidRange, appointments |-> appts]
    ELSE IF RescheduleOverlap(appts, appt, start, end) # {}
    THEN [resp |-> SlotConflict, appointments |-> appts]
    ELSE [resp |-> Returned("rescheduled", appt.id),
          appointments |->
              [appts EXCEPT ![appointment_id].start_time = start,
                            ![appointment_id].end_time = end]]

\* the status of the row a request addresses, "" if there is no such row
StatusOf(appts, appointment_id) ==
    IF appointment_id \in DOMAIN appts THEN appts[appointment_id].status ELSE ""

\* sent: how the call of send_reschedule_email ends
Reschedule(current_user, appointment_id, start_time, end_time, sent) ==
    \E out \in {RescheduleOutcome(appointments, current_user, appointment_id,
                                    start_time, end_time)} :
    /\ resp' = AfterDispatch(out.resp, sent)
    /\ appointments' = out.appointments
    /\ dispatch' = Notify("rescheduling", users[current_user].email,
                          appointment_id, StartOf(out.appointments, appointment_id),
                          out.resp, sent)
    /\ status_before' = StatusOf(appointments, appointment_id)
    /\ UNCHANGED <<users, providers, now, tokens, inflight, checked_at, streak,
                   profiles>>

-----------------------------------------------------------------------------
(* Scheduling: cancel_appointment *)

\* cancel_appointment refusing a row that is cancelled already
CancelOutcomeOnce(appts, current_user, appointment_id) ==
    IF appointment_id \notin DOMAIN appts
    THEN [resp |-> AppointmentNotFound, appointments |-> appts]
    ELSE IF appts[appointment_id].patient_id # current_user
    THEN [resp |-> CancelForbidden, appointments |-> appts]
    ELSE IF appts[appointment_id].status = "cancelled"
    THEN [resp |-> Response(400, "Appointment already cancelled"),
          appointments |-> appts]
    ELSE [resp |-> Cancelled,
          appointments |-> [appts EXCEPT ![appointment_id].status = "cancelled"]]

\* the whole handler on a store: its response and the table after it
CancelOutcome(appts, current_user, appointment_id) ==
    IF appointment_id \notin DOMAIN appts
    THEN [resp |-> AppointmentNotFound, appointments |-> appts]
    ELSE IF appts[appointment_id].patient_id # current_user
    THEN [resp |-> CancelForbidden, appointments |-> appts]
    ELSE [resp |-> Cancelled,
          appointments |-> [appts EXCEPT ![appointment_id].status = "cancelled"]]

\* sent: how the call of send_cancellation_email ends
Cancel(current_user, appointment_id, sent) ==
    \E out \in {CancelOutcome(appointments, current_user, appointment_id)} :
    /\ resp' = AfterDispatch(out.resp, sent)
    /\ appointments' = out.appointments
    /\ dispatch' = Notify("cancellation", users[current_user].email,
                          appointment_id, StartOf(out.appointments, appointment_id),
                          out.resp, sent)
    /\ status_before' = StatusOf(appointments, appointment_id)
    /\ UNCHANGED <<users, providers, now, tokens, inflight, checked_at, streak,
                   profiles>>

-----------------------------------------------------------------------------
(* Authentication: constants of app/auth.py and app/config.py *)

\* if user.failed_login_attempts >= 5
MaxFailedLogins == 5
\* timedelta(minutes=15)
LockoutMinutes == 15
\* if inactivity_seconds > 30
InactivitySeconds == 30
\* settings.ACCESS_TOKEN_EXPIRE_MINUTES
AccessTokenExpireMinutes == 60

Minutes(m) == m * 60

\* failed_login_attempts values the model follows
MaxAttempts == 6
\* tokens the clients hold at a time
MaxTokens == 2
\* the clock of the lockout model runs to MaxLockoutTicks steps of five minutes
MaxLockoutTicks == 6
\* the clock of the session model runs to MaxSessionTicks steps of 31 seconds
MaxSessionTicks == 3

-----------------------------------------------------------------------------
(* Access tokens: the claims sub, role and exp, and the key that signed them *)

\* str(user.id)
IdStr(id) == <<"1", "2", "3">>[id]

\* int(sub): the id, or None where int() raises ValueError
ParseInt(sub) ==
    IF \E n \in 1..3 : IdStr(n) = sub
    THEN Some(CHOOSE n \in 1..3 : IdStr(n) = sub)
    ELSE None

\* create_access_token(data={"sub": str(user.id), "role": user.role}, expires_delta)
create_access_token(user, t) ==
    [sub |-> Some(IdStr(user.id)), role |-> user.role,
     exp |-> t + Minutes(AccessTokenExpireMinutes), key |-> "SECRET_KEY"]

\* jwt.decode: the signature is checked with SECRET_KEY and exp must not have passed
Decodes(token, t) == token.key = "SECRET_KEY" /\ token.exp >= t

\* get_user_by_email: the first row with the email, or None
get_user_by_email(us, email) ==
    IF \E i \in DOMAIN us : us[i].email = email
    THEN Some(CHOOSE i \in DOMAIN us :
                 /\ us[i].email = email
                 /\ \A j \in DOMAIN us : us[j].email = email => i <= j)
    ELSE None

CredentialsException == Response(401, "Could not validate credentials.")
SessionExpired ==
    Response(401, "Session expired due to inactivity. Please log in again.")
IncorrectCredentials == Response(401, "Incorrect email or password")
AccountLocked ==
    Response(403, "Account locked due to too many failed attempts. Locked for 15 minutes.")
\* "... Try again in {int(remaining)} minutes."
AccountLockedFor(minutes) ==
    [status |-> 403,
     detail |-> "Account locked due to too many failed attempts. Try again in",
     id |-> 0, minutes |-> minutes, token |-> None, rows |-> <<>>]
TokenIssued(token) ==
    [status |-> 200, detail |-> "bearer", id |-> 0, minutes |-> 0,
     token |-> Some(token), rows |-> <<>>]

-----------------------------------------------------------------------------
(* get_current_user: the dependency of every authenticated route *)

\* the inactivity test with >= in place of >
InactiveAtThreshold(user, t) ==
    /\ ~IsNone(user.last_active)
    /\ t - Val(user.last_active) >= InactivitySeconds

\* user.last_active is set and more than 30 seconds old
Inactive(user, t) ==
    /\ ~IsNone(user.last_active)
    /\ t - Val(user.last_active) > InactivitySeconds

\* get_current_user recording the time of a request it refuses as expired
GetCurrentUserOutcomeTouches(us, t, token) ==
    IF ~Decodes(token, t) \/ IsNone(token.sub)
    THEN [resp |-> CredentialsException, users |-> us]
    ELSE
    LET user_id == ParseInt(Val(token.sub)) IN
    IF IsNone(user_id) \/ Val(user_id) \notin DOMAIN us
    THEN [resp |-> CredentialsException, users |-> us]
    ELSE IF Inactive(us[Val(user_id)], t)
    THEN [resp |-> SessionExpired,
          users |-> [us EXCEPT ![Val(user_id)].last_active = Some(t)]]
    ELSE [resp |-> Returned("user", Val(user_id)),
          users |-> [us EXCEPT ![Val(user_id)].last_active = Some(t)]]

\* the whole dependency on a store: its response and the table after it
GetCurrentUserOutcome(us, t, token) ==
    IF ~Decodes(token, t) \/ IsNone(token.sub)
    THEN [resp |-> CredentialsException, users |-> us]
    ELSE
    LET user_id == ParseInt(Val(token.sub)) IN
    IF IsNone(user_id) \/ Val(user_id) \notin DOMAIN us
    THEN [resp |-> CredentialsException, users |-> us]
    ELSE IF Inactive(us[Val(user_id)], t)
    THEN [resp |-> SessionExpired, users |-> us]
    ELSE [resp |-> Returned("user", Val(user_id)),
          users |-> [us EXCEPT ![Val(user_id)].last_active = Some(t)]]

GetCurrentUser(token) ==
    \E out \in {GetCurrentUserOutcome(users, now, token)} :
    /\ resp' = out.resp
    /\ users' = out.users
    /\ dispatch' = NoDispatch
    /\ status_before' = ""
    /\ UNCHANGED <<providers, appointments, now, tokens, inflight, checked_at,
                   streak, profiles>>

-----------------------------------------------------------------------------
(* login *)

\* the lockout test with >= in place of >
LockedThroughExpiry(user, t) ==
    /\ ~IsNone(user.lockout_until)
    /\ Val(user.lockout_until) >= t

\* user.lockout_until and user.lockout_until > datetime.utcnow()
Locked(user, t) ==
    /\ ~IsNone(user.lockout_until)
    /\ Val(user.lockout_until) > t

\* the successful branch without the reset of the counter
LoginSuccessKeepsCount(user, t) ==
    [user EXCEPT !.lockout_until = None, !.last_active = Some(t)]

\* the successful branch: counters reset, last_active recorded
LoginSuccess(user, t) ==
    [user EXCEPT !.failed_login_attempts = 0,
                 !.lockout_until = None,
                 !.last_active = Some(t)]

\* the mismatch branch locking one attempt late
LoginFailureLate(user, t) ==
    IF user.failed_login_attempts + 1 > MaxFailedLogins
    THEN [user EXCEPT !.failed_login_attempts = @ + 1,
                      !.lockout_until = Some(t + Minutes(LockoutMinutes))]
    ELSE [user EXCEPT !.failed_login_attempts = @ + 1]

\* the mismatch branch starting the count again once a lockout has ended
LoginFailureFreshAfterExpiry(user, t) ==
    IF ~IsNone(user.lockout_until)
    THEN [user EXCEPT !.failed_login_attempts = 1, !.lockout_until = None]
    ELSE IF user.failed_login_attempts + 1 >= MaxFailedLogins
    THEN [user EXCEPT !.failed_login_attempts = @ + 1,
                      !.lockout_until = Some(t + Minutes(LockoutMinutes))]
    ELSE [user EXCEPT !.failed_login_attempts = @ + 1]

\* the mismatch branch: the counter goes up, and from 5 on the account is locked
LoginFailure(user, t) ==
    IF user.failed_login_attempts + 1 >= MaxFailedLogins
    THEN [user EXCEPT !.failed_login_attempts = @ + 1,
                      !.lockout_until = Some(t + Minutes(LockoutMinutes))]
    ELSE [user EXCEPT !.failed_login_attempts = @ + 1]

\* the CAPTCHA step only logs, so it is left out; form_data.username is the email
LoginOutcome(us, t, email, password) ==
    LET found == get_user_by_email(us, email) IN
    IF IsNone(found)
    THEN [resp |-> IncorrectCredentials, users |-> us]
    ELSE
    LET user == us[Val(found)] IN
    IF Locked(user, t)
    THEN [resp |-> AccountLockedFor((Val(user.lockout_until) - t) \div 60),
          users |-> us]
    ELSE IF ~verify_password(password, user.password_hash)
    THEN LET failed == LoginFailure(user, t) IN
         [resp |-> IF failed.failed_login_attempts >= MaxFailedLogins
                   THEN AccountLocked ELSE IncorrectCredentials,
          users |-> [us EXCEPT ![Val(found)] = failed]]
    ELSE [resp |-> TokenIssued(create_access_token(user, t)),
          users |-> [us EXCEPT ![Val(found)] = LoginSuccess(user, t)]]

\* history: the wrong passwords verified since the user's last successful login
StreakAfter(us, t, email, password) ==
    LET found == get_user_by_email(us, email) IN
    IF IsNone(found) \/ Locked(us[Val(found)], t)
    THEN streak
    ELSE IF password = GoodPassword
    THEN [streak EXCEPT ![Val(found)] = 0]
    ELSE [streak EXCEPT ![Val(found)] = @ + 1]

\* keep: whether the client keeps the token it is given
Login(email, password, keep) ==
    \E out \in {LoginOutcome(users, now, email, password)} :
    /\ \A i \in DOMAIN out.users : out.users[i].failed_login_attempts <= MaxAttempts
    /\ resp' = out.resp
    /\ users' = out.users
    /\ tokens' = IF keep /\ ~IsNone(out.resp.token)
                 THEN tokens \cup {Val(out.resp.token)}
                 ELSE tokens
    /\ Cardinality(tokens') <= MaxTokens
    /\ streak' = StreakAfter(users, now, email, password)
    /\ dispatch' = NoDispatch
    /\ status_before' = ""
    /\ UNCHANGED <<providers, appointments, now, inflight, checked_at, profiles>>

\* time passes between requests
Tick(d, horizon) ==
    /\ now + d <= horizon
    /\ now' = now + d
    /\ UNCHANGED <<users, providers, appointments, resp, tokens, inflight,
                   checked_at, streak, profiles, dispatch, status_before>>

-----------------------------------------------------------------------------
(* register and the password policy.  A password is the sequence of its      *)
(* characters.                                                               *)

\* .{12,}
MinPasswordLength == 12

\* [a-z], [A-Z] and \d (on ASCII text: 0-9)
LowerCase == {"a", "b", "c", "d", "e", "f", "g", "h", "i", "j", "k", "l", "m",
              "n", "o", "p", "q", "r", "s", "t", "u", "v", "w", "x", "y", "z"}
UpperCase == {"A", "B", "C", "D", "E", "F", "G", "H", "I", "J", "K", "L", "M",
              "N", "O", "P", "Q", "R", "S", "T", "U", "V", "W", "X", "Y", "Z"}
Digit == {"0", "1", "2", "3", "4", "5", "6", "7", "8", "9"}
\* [^A-Za-z0-9]
NotAlnum == {"\n", "#", "-", "!", " "}

\* "." matches every character but the newline (the pattern sets no DOTALL)
Dot(c) == c # "\n"

\* (?=.*[class]) at position 0: some character of the class with only "."
\* characters before it
LookAhead(password, class) ==
    \E i \in 1..Len(password) :
        /\ password[i] \in class
        /\ \A j \in 1..(i - 1) : Dot(password[j])

\* .{12,}$ at position 0: k >= 12 "." characters, ending at the end of the
\* text or before a newline that ends the text
AtLeastMinToEnd(password) ==
    \E k \in MinPasswordLength..Len(password) :
        /\ \A j \in 1..k : Dot(password[j])
        /\ \/ k = Len(password)
           \/ k = Len(password) - 1 /\ password[Len(password)] = "\n"

\* bool(PASSWORD_POLICY.match(password))
meets_password_policy(password) ==
    /\ LookAhead(password, LowerCase)
    /\ LookAhead(password, UpperCase)
    /\ LookAhead(password, Digit)
    /\ LookAhead(password, NotAlnum)
    /\ AtLeastMinToEnd(password)

DuplicateEmail == Response(400, "A user with this email already exists.")
WeakPassword ==
    Response(400, "Password must be at least 12 characters with uppercase, lowercase, digit, and special character.")

\* user_in.role or "patient"
RoleOrPatient(role) ==
    IF IsNone(role) \/ Val(role) = "" THEN "patient" ELSE Val(role)

\* register without the lookup of the email
RegisterOutcomeNoLookup(us, email, password, role) ==
    IF ~meets_password_policy(password)
    THEN [resp |-> WeakPassword, users |-> us]
    ELSE [resp |-> Returned("user", Len(us) + 1),
          users |-> Append(us, NewUser(Len(us) + 1, email, password,
                                       RoleOrPatient(role)))]

\* the whole handler on a store: its response and the table after it
RegisterOutcome(us, email, password, role) ==
    IF ~IsNone(get_user_by_email(us, email))
    THEN [resp |-> DuplicateEmail, users |-> us]
    ELSE IF ~meets_password_policy(password)
    THEN [resp |-> WeakPassword, users |-> us]
    ELSE [resp |-> Returned("user", Len(us) + 1),
          users |-> Append(us, NewUser(Len(us) + 1, email, password,
                                       RoleOrPatient(role)))]

\* user rows the store may hold
MaxUsers == 3

\* sent: how the call of send_welcome_email ends
Register(email, password, role, sent) ==
    \E out \in {RegisterOutcome(users, email, password, role)} :
    /\ Len(out.users) <= MaxUsers
    /\ resp' = AfterDispatch(out.resp, sent)
    /\ users' = out.users
    /\ dispatch' = Notify("welcome", email, out.resp.id, 0, out.resp, sent)
    /\ streak' = [u \in DOMAIN out.users |->
                     IF u \in DOMAIN streak THEN streak[u] ELSE 0]
    /\ status_before' = ""
    /\ UNCHANGED <<providers, appointments, now, tokens, inflight, checked_at,
                   profiles>>

-----------------------------------------------------------------------------
(* The store with two registered patients and two providers, no appointment *)

Slots == {1, 2}
Idle == [pc |-> "idle"]

RegisteredUsers ==
    <<NewUser(1, "ann@example.com", GoodPassword, "patient"),
      NewUser(2, "bob@example.com", GoodPassword, "patient")>>

InitSched ==
    /\ users = RegisteredUsers
    /\ providers = ProviderIds
    /\ appointments = <<>>
    /\ now = 0
    /\ resp = NoResponse
    /\ tokens = {}
    /\ inflight = [s \in Slots |-> Idle]
    /\ checked_at = <<>>
    /\ streak = [u \in UserIds |-> 0]
    /\ profiles = <<>>
    /\ dispatch = NoDispatch
    /\ status_before = ""

ProviderIdInputs == ProviderIds \cup {UnknownProviderId}
ApptIdInputs == 1..(MaxAppts + 1)

Init == InitSched

NextSched ==
    \/ \E u \in UserIds, p \in ProviderIdInputs, s \in DateTimes, e \in DateTimes,
          d \in Delivered : Book(u, p, s, e, d)
    \/ \E u \in UserIds, a \in ApptIdInputs, s \in DateTimes, e \in DateTimes,
          d \in Delivered : Reschedule(u, a, s, e, d)
    \/ \E u \in UserIds, a \in ApptIdInputs, d \in Delivered : Cancel(u, a, d)

\* every request runs to completion before the next starts
Spec == Init /\ [][NextSched]_vars

-----------------------------------------------------------------------------
(* Two booking requests in flight: each has its own session, its overlap     *)
(* query reads the committed rows, and its insert is committed later         *)

Checked(slot) == inflight[slot].pc = "checked"
NumChecked == Cardinality({s \in Slots : Checked(s)})

\* book_appointment from the provider lookup to the overlap query
BookBegin(slot, current_user, provider_id, start_time, end_time) ==
    /\ ~Checked(slot)
    /\ Len(appointments) + NumChecked < MaxAppts
    /\ \E err \in {BookCheck(appointments, providers, provider_id,
                             start_time, end_time)} :
         IF ~IsNone(err)
         THEN /\ resp' = Val(err)
              /\ dispatch' = NoDispatch
              /\ status_before' = ""
              /\ UNCHANGED inflight
         ELSE /\ inflight' = [inflight EXCEPT ![slot] =
                    [pc |-> "checked", patient_id |-> current_user,
                     provider_id |-> provider_id, start_time |-> start_time,
                     end_time |-> end_time, seen |-> Len(appointments)]]
              /\ UNCHANGED <<resp, dispatch, status_before>>
    /\ UNCHANGED <<users, providers, appointments, now, tokens, checked_at, streak,
                   profiles>>

\* book_appointment from the insert to the commit, the notification and the
\* return
BookCommit(slot, sent) ==
    /\ Checked(slot)
    /\ appointments' = BookInsert(appointments, inflight[slot].patient_id,
                                  inflight[slot].provider_id,
                                  inflight[slot].start_time,
                                  inflight[slot].end_time)
    /\ resp' = AfterDispatch(Returned("booked", Len(appointments) + 1), sent)
    /\ dispatch' = Notify("booking_confirmation",
                          users[inflight[slot].patient_id].email,
                          Len(appointments) + 1,
                          ColumnTime(inflight[slot].start_time),
                          Returned("booked", Len(appointments) + 1), sent)
    /\ checked_at' = Append(checked_at, inflight[slot].seen)
    /\ inflight' = [inflight EXCEPT ![slot] = Idle]
    /\ status_before' = ""
    /\ UNCHANGED <<users, providers, now, tokens, streak, profiles>>

NextRace ==
    \/ \E k \in Slots, u \in UserIds, p \in ProviderIdInputs,
          s \in DateTimes, e \in DateTimes : BookBegin(k, u, p, s, e)
    \/ \E k \in Slots, d \in Delivered : BookCommit(k, d)
    \/ \E u \in UserIds, a \in ApptIdInputs, d \in Delivered : Cancel(u, a, d)

SpecRace == Init /\ [][NextRace]_vars

-----------------------------------------------------------------------------
(* Login and lockout: logins of one known and one unknown email, the clock   *)
(* in steps of five and fifteen minutes                                      *)

LoginEmails == {"ann@example.com", UnknownEmail}
LoginPasswords == {GoodPassword, WrongPassword}
LockoutTicks == {Minutes(5), Minutes(LockoutMinutes)}
LockoutHorizon == Minutes(5) * MaxLockoutTicks

NextLogin ==
    \/ \E e \in LoginEmails, p \in LoginPasswords : Login(e, p, FALSE)
    \/ \E d \in LockoutTicks : Tick(d, LockoutHorizon)

SpecLogin == Init /\ [][NextLogin]_vars

-----------------------------------------------------------------------------
(* Sessions: logins whose tokens are kept, authenticated requests, the clock *)
(* in steps of 30 and 31 seconds                                             *)

SessionTicks == {InactivitySeconds, InactivitySeconds + 1}
SessionHorizon == (InactivitySeconds + 1) * MaxSessionTicks

\* the tokens a request may carry: those the clients hold, and one signed with another key
ForgedToken ==
    [sub |-> Some("1"), role |-> "patient",
     exp |-> Minutes(AccessTokenExpireMinutes), key |-> "guess"]
TokenInputs == tokens \cup {ForgedToken}

NextSession ==
    \/ \E e \in LoginEmails, p \in LoginPasswords, k \in BOOLEAN : Login(e, p, k)
    \/ \E tok \in TokenInputs : GetCurrentUser(tok)
    \/ \E d \in SessionTicks : Tick(d, SessionHorizon)

SpecSession == Init /\ [][NextSession]_vars

-----------------------------------------------------------------------------
(* Registration: one email that is taken and one that is free, passwords     *)
(* made of a run of one letter with up to MaxTail characters before or      *)
(* after it                                                                  *)

\* characters before or after the run
MaxTail == 3

PolicyChars == {"a", "Z", "7", "#", "\n"}
RunChars == {"a", "Z"}
Run(c, n) == [i \in 1..n |-> c]
Tails == UNION {[1..k -> PolicyChars] : k \in 0..MaxTail}
RunLengths == {MinPasswordLength - 4, MinPasswordLength - 3}
PasswordInputs ==
    {Run(c, n) \o t : c \in RunChars, n \in RunLengths, t \in Tails}
        \cup {t \o Run(c, n) : c \in RunChars, n \in RunLengths, t \in Tails}

NewEmail == "cat@example.com"
RegisterEmails == {"ann@example.com", NewEmail}
RoleInputs == {None, Some(""), Some("provider"), Some("superuser")}

NextRegister ==
    \E e \in RegisterEmails, p \in PasswordInputs, r \in RoleInputs,
       d \in Delivered : Register(e, p, r, d)

SpecRegister == Init /\ [][NextRegister]_vars

-----------------------------------------------------------------------------
(* Profiles: upsert_my_profile.  A row keeps its id, its user and full_name;  *)
(* date_of_birth, phone and insurance are written where full_name is.        *)

\* profile rows the store may hold
MaxProfiles == 3

FullNames == {"Ann Lee", "A. Lee"}

\* PatientProfile(user_id=..., full_name=...)
NewProfile(id, user_id, full_name) ==
    [id |-> id, user_id |-> user_id, full_name |-> full_name]

\* select(PatientProfile).where(user_id == ...).first(): None if no row
\* matches, and otherwise one of the matching rows (the query has no ORDER BY)
ProfileLookup(profs, user_id) ==
    IF \A i \in DOMAIN profs : profs[i].user_id # user_id
    THEN {None}
    ELSE {Some(i) : i \in {j \in DOMAIN profs : profs[j].user_id = user_id}}

\* the branch on the looked-up row: session.add of a new row, or the update
\* of the row found
UpsertWrite(profs, user_id, full_name, found) ==
    IF IsNone(found)
    THEN Append(profs, NewProfile(Len(profs) + 1, user_id, full_name))
    ELSE [profs EXCEPT ![Val(found)].full_name = full_name]

\* the id of the row the handler returns
UpsertReturns(profs, found) ==
    IF IsNone(found) THEN Len(profs) + 1 ELSE Val(found)

\* requests in flight between the lookup and the commit
LookedUp(slot) == inflight[slot].pc = "looked_up"
NumAdding ==
    Cardinality({k \in Slots : LookedUp(k) /\ IsNone(inflight[k].found)})

\* the whole handler in one step
UpsertProfile(current_user, full_name) ==
    \E found \in ProfileLookup(profiles, current_user) :
    /\ IsNone(found) => Len(profiles) + NumAdding < MaxProfiles
    /\ profiles' = UpsertWrite(profiles, current_user, full_name, found)
    /\ resp' = Returned("profile", UpsertReturns(profiles, found))
    /\ dispatch' = NoDispatch
    /\ status_before' = ""
    /\ UNCHANGED <<users, providers, appointments, now, tokens, inflight,
                   checked_at, streak>>

\* upsert_my_profile up to the lookup of the existing row
UpsertBegin(slot, current_user, full_name) ==
    /\ inflight[slot] = Idle
    /\ \E found \in ProfileLookup(profiles, current_user) :
         /\ IsNone(found) => Len(profiles) + NumAdding < MaxProfiles
         /\ inflight' = [inflight EXCEPT ![slot] =
               [pc |-> "looked_up", user_id |-> current_user,
                full_name |-> full_name, found |-> found]]
    /\ UNCHANGED <<users, providers, appointments, now, resp, tokens, checked_at,
                   streak, profiles, dispatch, status_before>>

\* upsert_my_profile from the branch on the looked-up row to the commit
UpsertCommit(slot) ==
    /\ LookedUp(slot)
    /\ profiles' = UpsertWrite(profiles, inflight[slot].user_id,
                               inflight[slot].full_name, inflight[slot].found)
    /\ resp' = Returned("profile", UpsertReturns(profiles, inflight[slot].found))
    /\ inflight' = [inflight EXCEPT ![slot] = Idle]
    /\ dispatch' = NoDispatch
    /\ status_before' = ""
    /\ UNCHANGED <<users, providers, appointments, now, tokens, checked_at, streak>>

NextProfile ==
    \/ \E u \in UserIds, n \in FullNames : UpsertProfile(u, n)
    \/ \E k \in Slots, u \in UserIds, n \in FullNames : UpsertBegin(k, u, n)
    \/ \E k \in Slots : UpsertCommit(k)

\* PUT /profile/me requests, one at a time or two in flight
SpecProfile == Init /\ [][NextProfile]_vars

-----------------------------------------------------------------------------
(* Provider accounts (create_provider.py) and get_provider_dashboard          *)

\* provider rows the store may hold
MaxProviders == 3

\* the password the script gives the account
ProviderPassword == <<"p", "r", "o", "v", "i", "d", "e", "r", "1", "2", "3">>

\* the user part of the script: the user with the email gets the role
\* provider, or a new user with that role and a bcrypt hash is added
CreateProviderUser(us, email, password) ==
    LET found == get_user_by_email(us, email) IN
    IF ~IsNone(found)
    THEN [us EXCEPT ![Val(found)].role = "provider"]
    ELSE Append(us, [NewUser(Len(us) + 1, email, password, "provider")
                        EXCEPT !.password_hash = <<"bcrypt", password>>])

\* name_taken: whether a provider row with the script's name exists; names of
\* provider rows are not part of the state
CreateProvider(email, password, name_taken) ==
    /\ users' = CreateProviderUser(users, email, password)
    /\ Len(users') <= MaxUsers
    /\ providers' = IF name_taken THEN providers
                    ELSE providers \cup {Cardinality(providers) + 1}
    /\ Cardinality(providers') <= MaxProviders
    /\ streak' = [u \in DOMAIN users' |->
                     IF u \in DOMAIN streak THEN streak[u] ELSE 0]
    /\ UNCHANGED <<appointments, now, resp, tokens, inflight, checked_at,
                   profiles, dispatch, status_before>>

DashboardForbidden == Response(403, "Must be logged in as a provider")

\* the rows of the query before ORDER BY: appointment a joined with profile q
\* of its patient, q = 0 where the patient has no profile (outer join)
DashboardJoin(appts, profs, user_id) ==
    {pair \in (DOMAIN appts) \X (0..Len(profs)) :
        LET a == pair[1]
            q == pair[2]
        IN
        /\ appts[a].provider_id = user_id
        /\ appts[a].status = "booked"
        /\ \/ q \in DOMAIN profs /\ profs[q].user_id = appts[a].patient_id
           \/ /\ q = 0
              /\ \A i \in DOMAIN profs : profs[i].user_id # appts[a].patient_id}

\* ProviderAppointment(id=..., start_time=..., end_time=..., status=...,
\* patient_name=full_name); the reason of an appointment is not part of the state
DashboardRow(appts, profs, pair) ==
    [id |-> appts[pair[1]].id,
     start_time |-> appts[pair[1]].start_time,
     end_time |-> appts[pair[1]].end_time,
     status |-> appts[pair[1]].status,
     patient_name |-> IF pair[2] = 0 THEN None
                      ELSE Some(profs[pair[2]].full_name)]

\* ORDER BY start_time: the joined rows in every order that start_time allows
DashboardListings(appts, profs, user_id) ==
    LET joined == DashboardJoin(appts, profs, user_id)
        n == Cardinality(joined)
    IN
    {[k \in 1..n |-> DashboardRow(appts, profs, f[k])] :
        f \in {g \in [1..n -> joined] :
                 /\ \A i \in 1..n, j \in 1..n : g[i] = g[j] => i = j
                 /\ \A i \in 1..n, j \in 1..n :
                       i < j => appts[g[i][1]].start_time
                                    <= appts[g[j][1]].start_time}}

\* the responses the handler may give
DashboardOutcomes(us, appts, profs, current_user) ==
    IF us[current_user].role # "provider"
    THEN {DashboardForbidden}
    ELSE {[Returned("dashboard", 0) EXCEPT !.rows = listing] :
             listing \in DashboardListings(appts, profs, current_user)}

get_provider_dashboard(current_user) ==
    \E out \in DashboardOutcomes(users, appointments, profiles, current_user) :
    /\ resp' = out
    /\ dispatch' = NoDispatch
    /\ status_before' = ""
    /\ UNCHANGED <<users, providers, appointments, now, tokens, inflight,
                   checked_at, streak, profiles>>

\* the clock of the dashboard model runs to one step past the request times
DashboardHorizon == MaxTime + 1
ProviderEmails == {"ann@example.com", NewEmail}
DashboardNames == {"Bob Ray"}
\* bob is the patient of the dashboard model
DashboardPatients == {2}

NextDashboard ==
    \/ \E e \in ProviderEmails, t \in BOOLEAN :
          CreateProvider(e, ProviderPassword, t)
    \/ \E u \in DashboardPatients, p \in ProviderIds, s \in DateTimes,
          e \in DateTimes, d \in Delivered : Book(u, p, s, e, d)
    \/ \E u \in DashboardPatients, a \in ApptIdInputs, d \in Delivered :
          Cancel(u, a, d)
    \/ \E u \in DashboardPatients, n \in DashboardNames : UpsertProfile(u, n)
    \/ Tick(1, DashboardHorizon)
    \/ \E u \in DOMAIN users : get_provider_dashboard(u)

SpecDashboard == Init /\ [][NextDashboard]_vars

-----------------------------------------------------------------------------
(* Notifications: registrations and scheduling requests with naive           *)
(* datetimes, and a notification service that delivers, reports failure or  *)
(* raises                                                                    *)

NaiveDateTimes == {d \in DateTimes : IsNaive(d)}
NotifyPasswords == {GoodPassword, WrongPassword}

NextNotify ==
    \/ \E u \in UserIds, p \in ProviderIdInputs, s \in NaiveDateTimes,
          e \in NaiveDateTimes, d \in DispatchResults : Book(u, p, s, e, d)
    \/ \E u \in UserIds, a \in ApptIdInputs, s \in NaiveDateTimes,
          e \in NaiveDateTimes, d \in DispatchResults : Reschedule(u, a, s, e, d)
    \/ \E u \in UserIds, a \in ApptIdInputs, d \in DispatchResults :
          Cancel(u, a, d)
    \/ \E e \in RegisterEmails, p \in NotifyPasswords, d \in DispatchResults :
          Register(e, p, None, d)

SpecNotify == Init /\ [][NextNotify]_vars

-----------------------------------------------------------------------------
(* Overlap of stored rows *)

Booked(a) == a.status = "booked"

\* two rows of one provider whose ranges intersect
RowsOverlap(a, b) ==
    /\ a.provider_id = b.provider_id
    /\ a.start_time < b.end_time
    /\ b.start_time < a.end_time

BookedOverlap(i, j) ==
    /\ i # j
    /\ Booked(appointments[i])
    /\ Booked(appointments[j])
    /\ RowsOverlap(appointments[i], appointments[j])

\* C1: when every request runs to completion before the next starts, no two
\* distinct booked appointments of one provider have overlapping ranges
NoBookedOverlap ==
    \A i \in ApptIds, j \in ApptIds : ~BookedOverlap(i, j)

\* C1 witness: two booked appointments of one provider are stored, one of them
\* put where it is by a reschedule
NoBookedOverlapWitness ==
    /\ resp.detail = "rescheduled"
    /\ \E i \in ApptIds, j \in ApptIds :
          /\ i # j
          /\ Booked(appointments[i])
          /\ Booked(appointments[j])
          /\ appointments[i].provider_id = appointments[j].provider_id
          /\ appointments[i].end_time = appointments[j].start_time

\* C2: with the overlap check and the commit as separate steps, two booked
\* appointments of one provider overlap only if the request that inserted the
\* later one ran its overlap check before the earlier one was committed
RaceOnlyByInterleaving ==
    \A i \in ApptIds, j \in ApptIds :
        (i < j /\ BookedOverlap(i, j)) => checked_at[j] < i

\* C2 witness: two overlapping booked appointments of one provider are stored
RaceOverlapReached ==
    \E i \in ApptIds, j \in ApptIds : BookedOverlap(i, j)

-----------------------------------------------------------------------------
(* Requests as the claims read them: a datetime is the instant it denotes,   *)
(* a naive one taken as UTC                                                   *)

Instant(d) == IF d.tzinfo = <<>> THEN d.t ELSE d.t - d.tzinfo[1]
SameKind(s, e) == (s.tzinfo = <<>>) = (e.tzinfo = <<>>)

\* a booked row of the provider that intersects [start, end)
Blocking(provider_id, start, end, except) ==
    \E i \in ApptIds \ except :
        /\ appointments[i].provider_id = provider_id
        /\ appointments[i].status = "booked"
        /\ appointments[i].start_time < end
        /\ appointments[i].end_time > start

\* C3: for an existing provider and a range with start < end, book fails with
\* SlotConflict and stores nothing exactly when a booked appointment of that
\* provider has start_time < end and end_time > start, and otherwise appends
\* one appointment with status booked for that patient, provider and range
BookConflictExactly ==
    \A u \in UserIds, p \in providers, s \in DateTimes, e \in DateTimes :
        (SameKind(s, e) /\ Instant(s) < Instant(e)) =>
            LET out == BookOutcome(appointments, providers, u, p, s, e) IN
            IF Blocking(p, Instant(s), Instant(e), {})
            THEN /\ out.resp = SlotConflict
                 /\ out.appointments = appointments
            ELSE /\ out.resp.status = 200
                 /\ out.resp.id = Len(appointments) + 1
                 /\ out.appointments =
                        Append(appointments,
                               [id |-> Len(appointments) + 1, patient_id |-> u,
                                provider_id |-> p, start_time |-> Instant(s),
                                end_time |-> Instant(e), status |-> "booked"])

\* C3 witness: a booking was accepted whose start is the end of an earlier
\* booked appointment of the same provider (touching boundary)
TouchingBookingAccepted ==
    /\ resp.detail = "booked"
    /\ resp.id = Len(appointments)
    /\ \E i \in ApptIds :
          /\ i # resp.id
          /\ Booked(appointments[i])
          /\ appointments[i].provider_id = appointments[resp.id].provider_id
          /\ appointments[i].end_time = appointments[resp.id].start_time

\* C4 as stated: a booking with start >= end fails with InvalidRange for every
\* provider id and every pair
BookStartNotBeforeEndIsInvalidRange ==
    \A u \in UserIds, p \in ProviderIdInputs, s \in DateTimes, e \in DateTimes :
        (SameKind(s, e) /\ Instant(s) >= Instant(e)) =>
            BookOutcome(appointments, providers, u, p, s, e).resp = InvalidRange

\* C4 amended: a booking with start >= end stores nothing; it fails with
\* ProviderNotFound when the provider id is unknown and otherwise with
\* InvalidRange; a pair of one naive and one aware datetime, which Python
\* cannot order, stores nothing either and fails with ProviderNotFound or 500
BookStartNotBeforeEndRejected ==
    \A u \in UserIds, p \in ProviderIdInputs, s \in DateTimes, e \in DateTimes :
        LET out == BookOutcome(appointments, providers, u, p, s, e) IN
        /\ (SameKind(s, e) /\ Instant(s) >= Instant(e)) =>
              /\ out.appointments = appointments
              /\ out.resp = IF p \in providers THEN InvalidRange
                            ELSE ProviderNotFound
        /\ ~SameKind(s, e) =>
              /\ out.appointments = appointments
              /\ out.resp = IF p \in providers THEN InternalServerError
                            ELSE ProviderNotFound

\* C4 witness: a booking was refused with InvalidRange while appointments exist
InvalidRangeRefused ==
    /\ resp = InvalidRange
    /\ appointments # <<>>

\* C5: a reschedule by the owner to a range with newStart < newEnd fails with
\* SlotConflict and changes nothing when the range intersects another booked
\* appointment of the same provider (its own row does not count); otherwise it
\* succeeds, the row keeps its id, patient, provider and status and takes the
\* new range, and no row is added or changed otherwise
RescheduleByOwner ==
    \A a \in ApptIds, s \in DateTimes, e \in DateTimes :
        Instant(s) < Instant(e) =>
            LET appt == appointments[a]
                out == RescheduleOutcome(appointments, appt.patient_id, a, s, e)
            IN
            IF Blocking(appt.provider_id, Instant(s), Instant(e), {a})
            THEN /\ out.resp = SlotConflict
                 /\ out.appointments = appointments
            ELSE /\ out.resp.status = 200
                 /\ out.resp.id = appt.id
                 /\ DOMAIN out.appointments = DOMAIN appointments
                 /\ out.appointments[a] =
                        [id |-> appt.id, patient_id |-> appt.patient_id,
                         provider_id |-> appt.provider_id,
                         start_time |-> Instant(s), end_time |-> Instant(e),
                         status |-> appt.status]
                 /\ \A i \in ApptIds \ {a} : out.appointments[i] = appointments[i]

\* C5 witness: an appointment was rescheduled while another booked appointment
\* of its provider is stored, and its new range ends where the other starts
RescheduledNextToAnother ==
    /\ resp.detail = "rescheduled"
    /\ \E j \in ApptIds :
          /\ j # resp.id
          /\ Booked(appointments[j])
          /\ appointments[j].provider_id = appointments[resp.id].provider_id
          /\ appointments[resp.id].end_time = appointments[j].start_time

-----------------------------------------------------------------------------
(* Login, lockout and sessions as the claims read them *)

FifteenMinutes == 15 * 60
LockActive(u) == u.lockout_until # <<>> /\ u.lockout_until[1] > now
Unchanged(us, i) == \A j \in DOMAIN users \ {i} : us[j] = users[j]

\* C6: once five wrong passwords in a row have been verified for a user a
\* lockout is set, ending at most 15 minutes from now; while it is active
\* every login of that user fails with 403 and changes nothing, whatever the
\* password; once its end has come, a login with the right password succeeds
LockoutWindow ==
    \A i \in DOMAIN users :
        LET u == users[i] IN
        /\ streak[i] >= 5 =>
              /\ u.lockout_until # <<>>
              /\ u.lockout_until[1] <= now + FifteenMinutes
        /\ \A p \in LoginPasswords :
              LET out == LoginOutcome(users, now, u.email, p) IN
              /\ LockActive(u) =>
                    /\ out.resp.status = 403
                    /\ out.users = users
              /\ (u.lockout_until # <<>> /\ ~LockActive(u) /\ p = GoodPassword) =>
                    /\ out.resp.status = 200
                    /\ out.resp.token # <<>>
                    /\ out.users[i].failed_login_attempts = 0
                    /\ out.users[i].lockout_until = <<>>

\* C6 witness: five wrong passwords in a row locked the account and exactly
\* 15 minutes have passed since
LockoutJustEnded ==
    /\ streak[1] >= 5
    /\ users[1].lockout_until = <<now>>
    /\ now >= FifteenMinutes

\* C7: with no lockout active, a wrong password for a known email adds exactly
\* one to failed_login_attempts of that user and changes no other user; below
\* five the answer is 401 and lockout_until stays as it was, from five on the
\* answer is 403 and lockout_until is now + 15 minutes; an unknown email gets
\* 401 and changes nothing
WrongPasswordCounted ==
    /\ \A i \in DOMAIN users :
          LET u == users[i]
              out == LoginOutcome(users, now, u.email, WrongPassword)
              count == u.failed_login_attempts + 1
          IN
          ~LockActive(u) =>
              /\ out.users[i].failed_login_attempts = count
              /\ Unchanged(out.users, i)
              /\ out.users[i].last_active = u.last_active
              /\ out.users[i].password_hash = u.password_hash
              /\ IF count < 5
                 THEN /\ out.resp = IncorrectCredentials
                      /\ out.resp.status = 401
                      /\ out.users[i].lockout_until = u.lockout_until
                      /\ u.lockout_until = <<>>
                 ELSE /\ out.resp.status = 403
                      /\ out.users[i].lockout_until = <<now + FifteenMinutes>>
    /\ \A p \in LoginPasswords :
          LET out == LoginOutcome(users, now, UnknownEmail, p) IN
          /\ out.resp.status = 401
          /\ out.users = users

\* C7 witness: the fifth wrong password was answered with 403 and set the lockout
FifthFailureLocked ==
    /\ resp = AccountLocked
    /\ users[1].failed_login_attempts = 5
    /\ users[1].lockout_until = <<now + FifteenMinutes>>

\* C8: with no lockout active, a login with the right password sets
\* failed_login_attempts to 0, clears lockout_until, sets last_active to now,
\* changes nothing else and returns a token for the user that expires in 60
\* minutes; so failed_login_attempts is the number of wrong passwords since
\* the last successful login, and only five in a row set a lockout
SuccessResets ==
    \A i \in DOMAIN users :
        LET u == users[i]
            out == LoginOutcome(users, now, u.email, GoodPassword)
        IN
        /\ ~LockActive(u) =>
              /\ out.resp.status = 200
              /\ out.resp.token =
                    <<[sub |-> <<IdStr(i)>>, role |-> u.role,
                       exp |-> now + 60 * 60, key |-> "SECRET_KEY"]>>
              /\ out.users[i] = [u EXCEPT !.failed_login_attempts = 0,
                                          !.lockout_until = <<>>,
                                          !.last_active = <<now>>]
              /\ Unchanged(out.users, i)
        /\ u.failed_login_attempts = streak[i]
        /\ u.lockout_until # <<>> => streak[i] >= 5

\* C8 witness: four wrong passwords after a successful login, and no lockout
FailuresAfterSuccess ==
    /\ users[1].last_active # <<>>
    /\ users[1].failed_login_attempts = 4
    /\ users[1].lockout_until = <<>>
    /\ resp = IncorrectCredentials

\* C9: for a token a login issued, not yet expired, get_current_user fails
\* with SessionExpired (401) and changes nothing when more than 30 seconds
\* have passed since the user's last_active, and otherwise returns the user
\* and sets last_active to now; last_active is never in the future
SessionTimeout ==
    /\ \A tok \in tokens : \A i \in DOMAIN users :
          (tok.sub = <<IdStr(i)>> /\ tok.exp >= now) =>
              LET u == users[i]
                  out == GetCurrentUserOutcome(users, now, tok)
              IN
              IF u.last_active # <<>> /\ now - u.last_active[1] > 30
              THEN /\ out.resp = SessionExpired
                   /\ out.resp.status = 401
                   /\ out.users = users
              ELSE /\ out.resp.status = 200
                   /\ out.resp.id = i
                   /\ out.users = [users EXCEPT ![i].last_active = <<now>>]
    /\ \A i \in DOMAIN users :
          users[i].last_active # <<>> => users[i].last_active[1] <= now

\* C9 witness: at time 60 an authenticated request carrying a token issued at
\* time 0 is answered with the user; the clock moved in steps of 30 seconds, so
\* the session was refreshed exactly 30 seconds before
TwoRequestsThirtySecondsApart ==
    /\ now = 60
    /\ resp = Returned("user", 1)
    /\ users[1].last_active = <<now>>
    /\ \A tok \in tokens : tok.exp = 60 * 60

-----------------------------------------------------------------------------
(* Lockouts that have ended and sessions that have expired *)

LockEnded(u) == u.lockout_until # <<>> /\ u.lockout_until[1] <= now

\* C21: once a lockout has ended, a wrong password at once sets a new lockout
\* of 15 minutes and is answered AccountLocked (403), not 401, since the
\* counter was not reset; a login during an active lockout changes no user;
\* and the counter of a user goes down only in a step that returns a token,
\* which sets it to 0
LockoutEndKeepsCount ==
    /\ [](\A i \in DOMAIN users :
             LET u == users[i] IN
             /\ LockEnded(u) =>
                   LET out == LoginOutcome(users, now, u.email, WrongPassword) IN
                   /\ u.failed_login_attempts >= 5
                   /\ out.resp = AccountLocked
                   /\ out.resp.status = 403
                   /\ out.users[i].lockout_until = <<now + FifteenMinutes>>
                   /\ out.users[i].failed_login_attempts =
                         u.failed_login_attempts + 1
             /\ LockActive(u) =>
                   \A p \in LoginPasswords :
                       LoginOutcome(users, now, u.email, p).users = users)
    /\ [][\A i \in DOMAIN users :
             users'[i].failed_login_attempts < users[i].failed_login_attempts =>
                 /\ resp'.status = 200
                 /\ resp'.token # <<>>
                 /\ users'[i].failed_login_attempts = 0]_vars

\* C21 witness: the lockout set by the fifth wrong password has ended, and the
\* next wrong password was answered AccountLocked and set a new lockout
LockedAgainAfterExpiry ==
    /\ resp = AccountLocked
    /\ users[1].failed_login_attempts = 6
    /\ now >= FifteenMinutes
    /\ users[1].lockout_until = <<now + FifteenMinutes>>

SessionOver(u) == u.last_active # <<>> /\ now - u.last_active[1] > 30

\* C22: while more than 30 seconds have passed since a user's last_active,
\* every request with a token of that user fails with SessionExpired and
\* changes no user, last_active included; the session comes back only in a
\* step that returns a token (a successful login); and whenever the session
\* is not over, every token of the user whose exp has not passed is accepted,
\* whenever it was issued
SessionFollowsLastActive ==
    /\ [](\A i \in DOMAIN users : \A tok \in tokens :
             (tok.sub = <<IdStr(i)>> /\ tok.exp >= now) =>
                 LET out == GetCurrentUserOutcome(users, now, tok) IN
                 IF SessionOver(users[i])
                 THEN /\ out.resp = SessionExpired
                      /\ out.users = users
                 ELSE /\ out.resp.status = 200
                      /\ out.resp.id = i)
    /\ [][\A i \in DOMAIN users :
             (/\ SessionOver(users[i])
              /\ users'[i].last_active # users[i].last_active) =>
                 /\ resp'.status = 200
                 /\ resp'.token # <<>>
                 /\ users'[i].last_active = <<now>>]_vars

\* C22 witness: at time 61 a request is answered with the user while the only
\* token held was issued at time 0.  The clock moves in steps of 30 and 31
\* seconds, so the session was over at 31 or at 61 and a login whose token was
\* not kept brought it back
OldTokenAcceptedAfterLogin ==
    /\ now = 61
    /\ resp = Returned("user", 1)
    /\ users[1].last_active = <<now>>
    /\ tokens # {}
    /\ \A tok \in tokens : tok.exp = 60 * 60

-----------------------------------------------------------------------------
(* Ownership and the life of an appointment as the claims read them *)

Owner(a) == appointments[a].patient_id

\* C11: a reschedule or cancel of an existing appointment by a user who is not
\* its patient fails with 403, whatever the range, and changes no row; a
\* reschedule or cancel of an id that is not stored fails with 404 and changes
\* no row
OwnershipEnforced ==
    \A u \in UserIds, a \in ApptIdInputs, s \in DateTimes, e \in DateTimes :
        LET r == RescheduleOutcome(appointments, u, a, s, e)
            c == CancelOutcome(appointments, u, a)
        IN
        /\ (a \in ApptIds /\ u # Owner(a)) =>
              /\ r.resp.status = 403
              /\ c.resp.status = 403
              /\ r.appointments = appointments
              /\ c.appointments = appointments
        /\ a \notin ApptIds =>
              /\ r.resp.status = 404
              /\ c.resp.status = 404
              /\ r.appointments = appointments
              /\ c.appointments = appointments

\* C11 witness: a reschedule of a booked appointment was refused with 403
RescheduleByOtherRefused ==
    /\ resp = RescheduleForbidden
    /\ status_before = "booked"
    /\ dispatch = NoDispatch

\* C12: a cancel by the owner succeeds and sets the status to cancelled, and
\* a second cancel by the owner succeeds too and leaves every row as the
\* first cancel left it
CancelIdempotent ==
    \A a \in ApptIds :
        LET first == CancelOutcome(appointments, Owner(a), a)
            second == CancelOutcome(first.appointments, Owner(a), a)
        IN
        /\ first.resp.status = 200
        /\ first.appointments =
              [appointments EXCEPT ![a].status = "cancelled"]
        /\ second.resp.status = 200
        /\ second.resp = first.resp
        /\ second.appointments = first.appointments

\* C12 witness: a cancel of an appointment that was cancelled already succeeded
CancelledTwice ==
    /\ resp = Cancelled
    /\ status_before = "cancelled"

\* C13: no request removes a row or changes its id, and a row whose status is
\* cancelled keeps that status in every later state
CancelledIsTerminal ==
    [][\A a \in DOMAIN appointments :
          /\ a \in DOMAIN appointments'
          /\ appointments'[a].id = appointments[a].id
          /\ appointments[a].status = "cancelled" =>
                appointments'[a].status = "cancelled"]_vars

\* C13 witness: a cancelled appointment was rescheduled and a booking was made
\* after it, and its status is still cancelled
CancelledAfterLaterRequests ==
    /\ resp.detail = "rescheduled"
    /\ status_before = "cancelled"
    /\ appointments[resp.id].status = "cancelled"
    /\ Len(appointments) = MaxAppts

\* C18: every stored appointment has start_time < end_time; a reschedule by
\* the owner with newStart >= newEnd fails with InvalidRange (400) and changes
\* no row
RangeInvariant ==
    /\ \A a \in ApptIds : appointments[a].start_time < appointments[a].end_time
    /\ \A a \in ApptIds, s \in DateTimes, e \in DateTimes :
          Instant(s) >= Instant(e) =>
              LET out == RescheduleOutcome(appointments, Owner(a), a, s, e) IN
              /\ out.resp = RescheduleInvalidRange
              /\ out.resp.status = 400
              /\ out.appointments = appointments

\* C18 witness: a reschedule of a booked appointment was refused for its range
\* while two appointments are stored
RescheduleRangeRefused ==
    /\ resp = RescheduleInvalidRange
    /\ status_before = "booked"
    /\ Len(appointments) = MaxAppts

\* C19: a reschedule request on an appointment whose status is cancelled does
\* not change its start_time or end_time
RescheduleOnlyBooked ==
    \A u \in UserIds, a \in ApptIds, s \in DateTimes, e \in DateTimes :
        appointments[a].status = "cancelled" =>
            LET out == RescheduleOutcome(appointments, u, a, s, e) IN
            /\ out.appointments[a].start_time = appointments[a].start_time
            /\ out.appointments[a].end_time = appointments[a].end_time

\* C14: a notification is handed to the service only by a request that
\* succeeded, and whether the service delivered, reported failure or raised,
\* the response is the success and the row the request committed is stored:
\* the new booked appointment, the rescheduled row with its new start, the
\* cancelled row, the new user; a request that failed hands over nothing
BestEffortDispatch ==
    /\ resp.status # 200 => dispatch = NoDispatch
    /\ dispatch # NoDispatch =>
          /\ resp.status = 200
          /\ dispatch.result \in {"sent", "failed", "raised"}
          /\ dispatch.kind = "booking_confirmation" =>
                /\ resp.id = dispatch.id
                /\ dispatch.id = Len(appointments)
                /\ appointments[dispatch.id].status = "booked"
                /\ appointments[dispatch.id].start_time = dispatch.date
                /\ users[appointments[dispatch.id].patient_id].email = dispatch.to
          /\ dispatch.kind = "rescheduling" =>
                /\ resp.id = dispatch.id
                /\ appointments[dispatch.id].start_time = dispatch.date
                /\ users[appointments[dispatch.id].patient_id].email = dispatch.to
          /\ dispatch.kind = "cancellation" =>
                /\ resp = Cancelled
                /\ appointments[dispatch.id].status = "cancelled"
                /\ users[appointments[dispatch.id].patient_id].email = dispatch.to
          /\ dispatch.kind = "welcome" =>
                /\ resp.id = dispatch.id
                /\ dispatch.id = Len(users)
                /\ users[dispatch.id].email = dispatch.to

\* C14 witness: the notification of a cancel raised, the cancel was answered
\* with success and the row is cancelled
CancelKeptAfterDispatchRaised ==
    /\ dispatch.kind = "cancellation"
    /\ dispatch.result = "raised"
    /\ resp = Cancelled
    /\ appointments[dispatch.id].status = "cancelled"

-----------------------------------------------------------------------------
(* Registration as the claims read it *)

\* C15: a register request with the email of a stored user fails with
\* DuplicateEmail (400), whatever the password and the role, and leaves the
\* table as it is; no two stored users have the same email
EmailUniqueness ==
    /\ \A i \in DOMAIN users, j \in DOMAIN users :
          users[i].email = users[j].email => i = j
    /\ \A i \in DOMAIN users, p \in PasswordInputs, r \in RoleInputs :
          LET out == RegisterOutcome(users, users[i].email, p, r) IN
          /\ out.resp = DuplicateEmail
          /\ out.resp.status = 400
          /\ out.users = users

\* C15 witness: a user was registered, and a later request with an email that
\* is taken was refused
DuplicateRefusedAfterRegistration ==
    /\ resp = DuplicateEmail
    /\ Len(users) = Len(RegisteredUsers) + 1
    /\ users[Len(users)].email = NewEmail

RoleDomain == {"patient", "provider", "staff", "admin"}

\* C17: every stored user's role is one of patient, provider, staff, admin
RolesInDomain ==
    \A i \in DOMAIN users : users[i].role \in RoleDomain

\* the part of C17 that holds: a missing or empty role is stored as patient,
\* and every other role is stored as the request gives it
RoleStoredAsGiven ==
    \A p \in PasswordInputs, r \in RoleInputs :
        LET out == RegisterOutcome(users, NewEmail, p, r) IN
        out.resp.status = 200 =>
            out.users[Len(out.users)].role =
                IF r = <<>> \/ r = <<"">> THEN "patient" ELSE r[1]

-----------------------------------------------------------------------------
(* Profiles as the claim reads them *)

ProfilesOf(u) == {i \in DOMAIN profiles : profiles[i].user_id = u}

\* C16: there is at most one PatientProfile row for each user id, also when
\* two requests of one user interleave between the lookup and the commit
AtMostOneProfile ==
    \A u \in UserIds : Cardinality(ProfilesOf(u)) <= 1

\* the part of C16 that holds: a request that runs alone adds a row for a user
\* who has none, and otherwise writes one of the user's rows and adds none
UpsertCreatesThenUpdates ==
    \A u \in UserIds, n \in FullNames :
        \A found \in ProfileLookup(profiles, u) :
            LET after == UpsertWrite(profiles, u, n, found) IN
            IF ProfilesOf(u) = {}
            THEN after = Append(profiles, [id |-> Len(profiles) + 1,
                                           user_id |-> u, full_name |-> n])
            ELSE /\ Len(after) = Len(profiles)
                 /\ \E i \in ProfilesOf(u) :
                       after = [profiles EXCEPT ![i].full_name = n]

-----------------------------------------------------------------------------
(* The dashboard as the claim reads it *)

\* the appointments of the provider that are booked and have not started
Upcoming(u) ==
    {a \in ApptIds : /\ appointments[a].provider_id = u
                     /\ appointments[a].status = "booked"
                     /\ appointments[a].start_time >= now}

\* the rows are in the order of start_time
Ordered(rows) ==
    \A i \in 1..Len(rows), j \in 1..Len(rows) :
        i < j => rows[i].start_time <= rows[j].start_time

\* the appointments a listing shows, each once
Lists(rows, set) ==
    /\ {rows[k].id : k \in 1..Len(rows)} = set
    /\ Len(rows) = Cardinality(set)

\* C20: the dashboard fails with 403 for a user whose role is not provider;
\* for a provider user it returns exactly the booked appointments of that
\* provider that have not started before now, ordered by start_time
DashboardUpcomingBooked ==
    \A u \in DOMAIN users :
        \A out \in DashboardOutcomes(users, appointments, profiles, u) :
            IF users[u].role # "provider"
            THEN out.status = 403
            ELSE /\ out.status = 200
                 /\ Lists(out.rows, Upcoming(u))
                 /\ Ordered(out.rows)

\* the part of C20 that holds: 403 for a user whose role is not provider, and
\* for a provider user exactly the booked appointments whose provider_id is
\* the user's id, started or not, ordered by start_time
DashboardBookedOfProvider ==
    \A u \in DOMAIN users :
        \A out \in DashboardOutcomes(users, appointments, profiles, u) :
            IF users[u].role # "provider"
            THEN out.status = 403
            ELSE /\ out.status = 200
                 /\ Lists(out.rows,
                          {a \in ApptIds : /\ appointments[a].provider_id = u
                                           /\ appointments[a].status = "booked"})
                 /\ Ordered(out.rows)
                 /\ \A k \in 1..Len(out.rows) : out.rows[k].status = "booked"

-----------------------------------------------------------------------------
(* The password policy as the claim reads it *)

Contains(password, class) == \E i \in 1..Len(password) : password[i] \in class
Alnum == LowerCase \cup UpperCase \cup Digit
MeetsAllFive(password) ==
    /\ Len(password) >= 12
    /\ Contains(password, LowerCase)
    /\ Contains(password, UpperCase)
    /\ Contains(password, Digit)
    /\ \E i \in 1..Len(password) : password[i] \notin Alnum

\* C10: registration with an unused email refuses with WeakPassword (400) and
\* creates no user for every password that fails one of the five conditions,
\* and creates the user for every password that meets all of them
PolicyDecidesRegistration ==
    \A p \in PasswordInputs, r \in RoleInputs :
        IsNone(get_user_by_email(users, NewEmail)) =>
            LET out == RegisterOutcome(users, NewEmail, p, r) IN
            IF MeetsAllFive(p)
            THEN /\ out.resp.status = 200
                 /\ Len(out.users) = Len(users) + 1
                 /\ out.users[Len(users) + 1].email = NewEmail
            ELSE /\ out.resp = WeakPassword
                 /\ out.users = users

\* the half of C10 that holds: a password that fails one of the five
\* conditions is refused, and a password without a newline that meets them
\* all is accepted
PolicyRefusesEveryFailingPassword ==
    \A p \in PasswordInputs, r \in RoleInputs :
        IsNone(get_user_by_email(users, NewEmail)) =>
            LET out == RegisterOutcome(users, NewEmail, p, r) IN
            /\ ~MeetsAllFive(p) => (out.resp = WeakPassword /\ out.users = users)
            /\ (MeetsAllFive(p) /\ ~Contains(p, {"\n"})) => out.resp.status = 200

====
